---- MODULE Spec2Model ----
(***************************************************************************)
(* STSD (Spotify True Shuffle Daemon): the play-count store, the shuffle   *)
(* session, the start-shuffle handler and the queue-monitoring timer       *)
(* callback, with the remote Spotify service as environment.               *)
(*                                                                         *)
(* Every `await` of the JavaScript source is one yield point.  A step of   *)
(* a handler is: the effect of the call it was awaiting (remote or store), *)
(* followed by the synchronous code up to the next await.                  *)
(***************************************************************************)
EXTENDS Integers, Sequences, FiniteSets, TLC

(***************************************************************************)
(* Bounds of the model                                                     *)
(***************************************************************************)
MaxAdds       == 3  \* the remote accepts this many additions, then rate-limits
MoreAdds      == 5  \* the same, where a queue deeper than the target matters
MaxTime       == 1  \* daemon: distinct CURRENT_TIMESTAMP values
MaxPlaylists  == 1  \* the remote creates this many playlists, then refuses
MorePlaylists == 2  \* the same, where a second vehicle playlist matters
StoreMaxTime  == 2  \* store-level specification: distinct timestamps
MaxCount      == 2  \* store-level specification: largest play_count built
MaxLen        == 2  \* store-level specification: longest track list synced
MaxCalls      == 3  \* store-level specification: calls per run

(***************************************************************************)
(* Program constants                                                       *)
(***************************************************************************)
PLAYLIST_TARGET_SIZE == 3   \* parseInt(process.env.PLAYLIST_TARGET_SIZE) || 5
RecentLimit == 10           \* getRecentlyAddedTracks(currentContext, 10)

NULL == 0                   \* SQL NULL of last_played; timestamps are 1..MaxTime
None == "none"              \* JavaScript null / undefined

Tracks       == {"a", "b", "c"}
UserContexts == {"spotify:playlist:X", "spotify:playlist:Y"}
OneContext   == {"spotify:playlist:X"}
PlaylistIdSeq == <<"p1", "p2", "p3", "p4">>
PlaylistIds  == {PlaylistIdSeq[i] : i \in 1..Len(PlaylistIdSeq)}
ContextIds   == UserContexts \cup PlaylistIds
Ticks        == {"t1", "t2"}
OneTick      == {"t1"}
Starts       == {"s1", "s2"}
OneStart     == {"s1"}

Min(a, b) == IF a < b THEN a ELSE b

RECURSIVE SeqToSet(_)
SeqToSet(s) == IF s = <<>> THEN {} ELSE {Head(s)} \cup SeqToSet(Tail(s))

(***************************************************************************)
(* The play_counts table: a set of rows; PRIMARY KEY (context_id, track_id)*)
(***************************************************************************)
Row(c, t, n, lp) ==
    [context_id |-> c, track_id |-> t, play_count |-> n, last_played |-> lp]

HasRow(tbl, c, t) == \E r \in tbl : r.context_id = c /\ r.track_id = t

ContextRows(tbl, c) == {r \in tbl : r.context_id = c}

\* SELECT play_count ... ; resolve(row ? row.play_count : 0)
getPlayCount(tbl, c, t) ==
    IF HasRow(tbl, c, t)
    THEN (CHOOSE r \in tbl : r.context_id = c /\ r.track_id = t).play_count
    ELSE 0

\* A faulty insert: INSERT OR REPLACE, which overwrites the record of a track
\* that has one.
InsertOrReplace(tbl, c, t) ==
    {r \in tbl : ~(r.context_id = c /\ r.track_id = t)} \cup {Row(c, t, 0, NULL)}

\* INSERT OR IGNORE INTO play_counts ... VALUES (?, ?, 0, NULL)
InsertOrIgnore(tbl, c, t) ==
    IF HasRow(tbl, c, t) THEN tbl ELSE tbl \cup {Row(c, t, 0, NULL)}

\* tracks.forEach(track => db.run(INSERT OR IGNORE ...)): the inserts whose
\* index is in `failed` report an error and insert nothing.
RECURSIVE SyncInserts(_, _, _, _, _)
SyncInserts(tbl, c, tracks, failed, i) ==
    IF i > Len(tracks) THEN tbl
    ELSE SyncInserts(IF i \in failed THEN tbl ELSE InsertOrIgnore(tbl, c, tracks[i]),
                     c, tracks, failed, i + 1)

\* A faulty increment: the INSERT without its ON CONFLICT clause, on a table
\* without the primary key.
insertPlayCount(tbl, c, t, ts) == tbl \cup {Row(c, t, 1, ts)}

\* INSERT ... VALUES (?, ?, 1, CURRENT_TIMESTAMP)
\* ON CONFLICT(context_id, track_id) DO UPDATE SET play_count = play_count + 1,
\*                                                 last_played = CURRENT_TIMESTAMP
incrementPlayCount(tbl, c, t, ts) ==
    IF HasRow(tbl, c, t)
    THEN {IF r.context_id = c /\ r.track_id = t
          THEN Row(c, t, r.play_count + 1, ts) ELSE r : r \in tbl}
    ELSE tbl \cup {Row(c, t, 1, ts)}

\* A faulty reset: UPDATE play_counts SET play_count = 0, which keeps the
\* timestamps.
resetPlayCountsOnly(tbl) ==
    {Row(r.context_id, r.track_id, 0, r.last_played) : r \in tbl}

\* UPDATE play_counts SET play_count = 0, last_played = NULL
resetAllPlayCounts(tbl) == {Row(r.context_id, r.track_id, 0, NULL) : r \in tbl}

\* The columns a SELECT track_id, play_count, last_played returns of a row
Selected(r) ==
    [track_id |-> r.track_id, play_count |-> r.play_count,
     last_played |-> r.last_played]

\* The orders in which a SELECT can return `rows` when `before` holds the
\* pairs <<r, q>> of which its ORDER BY puts r strictly before q (rows it
\* does not order come in either order).
Ordered(rows, before) ==
    {s \in [1..Cardinality(rows) -> rows] :
        /\ \A r \in rows : \E i \in DOMAIN s : s[i] = r
        /\ \A i, j \in DOMAIN s : <<s[i], s[j]>> \in before => i < j}

\* A faulty listing: ORDER BY last_played DESC, the order of
\* getRecentlyAddedTracks.
getContextByRecency(tbl, c) ==
    LET rows == {Selected(r) : r \in ContextRows(tbl, c)}
        before == {p \in rows \X rows : p[1].last_played > p[2].last_played}
    IN Ordered(rows, before)

\* SELECT track_id, play_count, last_played FROM play_counts
\* WHERE context_id = ? ORDER BY play_count ASC, last_played ASC
\* (SQLite sorts NULL before every value): the possible results.
getContextPlayCounts(tbl, c) ==
    LET rows == {Selected(r) : r \in ContextRows(tbl, c)}
        before ==
            {p \in rows \X rows :
                \/ p[1].play_count < p[2].play_count
                \/ /\ p[1].play_count = p[2].play_count
                   /\ p[1].last_played < p[2].last_played}
    IN Ordered(rows, before)

\* A faulty leastPlayed: every record of the context (getContextPlayCounts
\* without the minimum filter).
getAllContextTracks(tbl, c) == ContextRows(tbl, c)

\* leastPlayed(context): all records sharing the minimum play_count
getLeastPlayedTracks(tbl, c) ==
    {r \in ContextRows(tbl, c) :
        \A q \in ContextRows(tbl, c) : r.play_count <= q.play_count}

\* array[Math.floor(Math.random() * array.length)]: the possible picks
getRandomElement(array) == array

\* SELECT ... WHERE context_id = ? ORDER BY last_played DESC LIMIT ?
\* (NULL sorts lowest; rows of equal last_played come in either order):
\* the possible result sets.
getRecentlyAddedTracks(tbl, c, limit) ==
    {S \in SUBSET ContextRows(tbl, c) :
        /\ Cardinality(S) = Min(limit, Cardinality(ContextRows(tbl, c)))
        /\ \A r \in S : \A q \in ContextRows(tbl, c) \ S :
               r.last_played >= q.last_played}

\* CURRENT_TIMESTAMP of a statement run when the last stamp given was `t`:
\* the clock has not moved, or it has (up to the bound `max`).
Stamps(t, max) == {s \in {t, t + 1} : 1 <= s /\ s <= max}

(***************************************************************************)
(* State                                                                   *)
(***************************************************************************)
VARIABLES
    store,            \* rows of play_counts, as seen on the one connection
    txn,              \* the open transaction of that connection, if any
    now,              \* the last CURRENT_TIMESTAMP handed out
    isAuthenticated,  \* SpotifyClient.isAuthenticated
    shuffleState,     \* the ShuffleState singleton
    playback,         \* remote: context uri of the current playback, or None
    queue,            \* remote: the playback queue (track uris)
    playlists,        \* remote: per playlist id, whether the user has that
                      \* [STSD] playlist, and its tracks
    created,          \* remote: number of playlists created so far
    upstream,         \* remote: track list of each user context
    adds,             \* remote: additions accepted so far, per track uri
    start,            \* the GET /api/shuffle/start handlers in flight
    tick,             \* the queueMonitoringInterval callbacks in flight
    dbcall,           \* store-level specification: the calls made so far
    stop              \* the last answer of POST /api/shuffle/stop

vars == <<store, txn, now, isAuthenticated, shuffleState, playback, queue,
          playlists, created, upstream, adds, start, tick, dbcall, stop>>

dbVars     == <<store, txn, now>>
remoteVars == <<playback, queue, playlists, created, upstream, adds>>

NoTxn == [active |-> FALSE, snapshot |-> {}]

\* ShuffleState constructor
ShuffleStateInit ==
    [isActive |-> FALSE, currentContext |-> None, currentTracks |-> <<>>,
     lastManagedTrack |-> None, stsdPlaylistId |-> None, initialTrackUri |-> None]

\* ShuffleState.startShuffle(contextUri, tracks)
startShuffle(ss, contextUri, tracks) ==
    [ss EXCEPT !.isActive = TRUE, !.currentContext = contextUri,
               !.currentTracks = tracks, !.lastManagedTrack = None,
               !.initialTrackUri = None]

\* A faulty isManagingContext: the context is compared with the vehicle
\* playlist id of the session.
isManagingPlaylist(ss, contextUri) ==
    ss.isActive /\ ss.stsdPlaylistId = contextUri

\* ShuffleState.isManagingContext(contextUri)
isManagingContext(ss, contextUri) ==
    ss.isActive /\ ss.currentContext = contextUri

\* ShuffleState.setStsdPlaylistId / setInitialTrack
setStsdPlaylistId(ss, playlistId) == [ss EXCEPT !.stsdPlaylistId = playlistId]
setInitialTrack(ss, trackUri) == [ss EXCEPT !.initialTrackUri = trackUri]

\* allTracks.find(track => track.uri === selectedTrack.track_id)
FindTrack(allTracks, uri) == uri \in SeqToSet(allTracks)

\* A faulty vehicle-playlist check: any playback context passes.
UriIsSet(uri, playlistId) == uri # None

\* currentPlayback?.context?.uri?.includes(shuffleState.getStsdPlaylistId()):
\* a playlist uri is "spotify:playlist:" + id, and no uri of the model holds
\* the text of another id (nor the text "null").
UriIncludes(uri, playlistId) ==
    uri # None /\ playlistId # None /\ uri = playlistId

\* A faulty type check: contextUri.includes('album').
IsAlbumUri(uri) == uri \notin PlaylistIds \cup UserContexts

\* contextUri.includes('playlist')
IsPlaylistUri(uri) == uri \in PlaylistIds \/ uri \in UserContexts

\* A faulty filter: only a leading occurrence of the initial track is
\* dropped.
FilterHead(q, initialTrackUri) ==
    IF q # <<>> /\ Head(q) = initialTrackUri THEN Tail(q) ELSE q

\* filteredQueue of the monitoring callback
RECURSIVE FilterQueue(_, _)
FilterQueue(q, initialTrackUri) ==
    IF q = <<>> THEN <<>>
    ELSE IF initialTrackUri # None /\ Head(q) = initialTrackUri
         THEN FilterQueue(Tail(q), initialTrackUri)
         ELSE <<Head(q)>> \o FilterQueue(Tail(q), initialTrackUri)

\* stillInQueue = recentlyAddedUris.filter(uri => filteredQueueUris.includes(uri))
StillInQueue(recentlyAdded, filteredQueue) ==
    {r.track_id : r \in recentlyAdded} \cap SeqToSet(filteredQueue)

TotalAdds == adds["a"] + adds["b"] + adds["c"]

\* res: the answer of the handler; http: the status of the remote's answer
\* that made getContextTracks throw, when it was 404
StartIdle ==
    [pc |-> "idle", contextUri |-> None, tracks |-> <<>>, playlistId |-> None,
     sel |-> None, i |-> 0, syncErr |-> FALSE, res |-> None, http |-> None,
     playbackStarted |-> FALSE]

\* gap: what lies between this pass's last accepted addToQueue and now
\* ("first": there was none yet; "none": no delay; "delay": the 1 s delay);
\* att, incs: the addToQueue calls and the completed increments of this pass;
\* res: how the last callback ended
TickIdle ==
    [pc |-> "idle", fq |-> <<>>, ctx |-> None, needed |-> 0, i |-> 0,
     sel |-> None, att |-> 0, incs |-> 0, res |-> None, gap |-> "first"]

\* op, ret, rejected, rows: the last call completed and what it came to
DbIdle ==
    [pc |-> "idle", c |-> None, tracks |-> <<>>, err |-> FALSE, inserted |-> 0,
     list |-> <<>>, after |-> None,
     calls |-> 0, op |-> None, ret |-> 0, rejected |-> FALSE, rows |-> {}]

\* The process has started: the tokens of an earlier login were loaded
\* (loadTokens), the database is open, nothing is playing.
Init ==
    /\ store = {}
    /\ txn = NoTxn
    /\ now = 0
    /\ isAuthenticated = TRUE
    /\ shuffleState = ShuffleStateInit
    /\ playback = None
    /\ queue = <<>>
    /\ playlists = [p \in PlaylistIds |-> [exists |-> FALSE, tracks |-> <<>>]]
    /\ created = 0
    /\ upstream = [c \in UserContexts |->
                      IF c \in OneContext THEN <<"a", "b">> ELSE <<"b", "c">>]
    /\ adds = [t \in Tracks |-> 0]
    /\ start = [h \in Starts |-> StartIdle]
    /\ tick = [t \in Ticks |-> TickIdle]
    /\ dbcall = DbIdle
    /\ stop = None

(***************************************************************************)
(* The remote service                                                      *)
(***************************************************************************)
\* What a call to the Web API can come to: it succeeds, it fails (HTTP error,
\* rate limit, network), or ensureValidToken fails to refresh the token,
\* which also clears isAuthenticated.
RemoteOutcomes == {"ok", "fail", "tokenfail"}
BasicOutcomes  == {"ok", "fail"}
\* and: the enumeration of the context answers 404; no device is available
\* to start playback on
AllOutcomes    == RemoteOutcomes \cup {"notfound", "nodevice"}

AuthAfter(o) == IF o = "tokenfail" THEN FALSE ELSE isAuthenticated

StsdPlaylists == {p \in PlaylistIds : playlists[p].exists}

\* The tracks getContextTracks enumerates for a context uri
CanEnumerate(uri) == uri \in UserContexts \/ uri \in StsdPlaylists
ContextTracks(uri) ==
    IF uri \in UserContexts THEN upstream[uri] ELSE playlists[uri].tracks

AddAccepted(t) == [adds EXCEPT ![t] = @ + 1]

(***************************************************************************)
(* GET /api/shuffle/start                                                  *)
(***************************************************************************)
\* res.json(...) / res.status(...).json(...): the handler has answered
StartFinish(h, r) ==
    start' = [start EXCEPT ![h] = [StartIdle EXCEPT !.res = r]]

\* The request arrives; the authentication check; getCurrentPlayback is called.
StartRequest(h) ==
    /\ start[h].pc = "idle"
    /\ IF ~isAuthenticated
       THEN StartFinish(h, "401")
       ELSE start' = [start EXCEPT ![h] = [StartIdle EXCEPT !.pc = "getPlayback"]]
    /\ UNCHANGED <<dbVars, remoteVars, isAuthenticated, shuffleState, tick, dbcall, stop>>

\* getCurrentPlayback returns; the context is resolved; the idempotency check;
\* getContextTracks is called.
StartGotPlayback(h, o) ==
    /\ start[h].pc = "getPlayback"
    /\ isAuthenticated' = AuthAfter(o)
    /\ LET contextUri == IF o = "ok" THEN playback ELSE None IN
       IF contextUri = None THEN StartFinish(h, "400")
       ELSE IF isManagingContext(shuffleState, contextUri)
            THEN StartFinish(h, "already active")
       ELSE IF ~isAuthenticated' THEN StartFinish(h, "500")
       ELSE start' = [start EXCEPT ![h].pc = "getTracks", ![h].contextUri = contextUri]
    /\ UNCHANGED <<dbVars, remoteVars, shuffleState, tick, dbcall, stop>>

\* createFreshSTSDPlaylist is called: it throws when not authenticated.
StartCallCreateFresh(h, auth, tracks) ==
    IF ~auth THEN StartFinish(h, "500")
    ELSE start' = [start EXCEPT ![h].pc = "removeAll", ![h].tracks = tracks]

\* getContextTracks returns; syncContextTracks is called (with no track it
\* resolves at once and leaves the table as it is).
StartGotTracks(h, o) ==
    /\ start[h].pc = "getTracks"
    /\ o = "ok" => CanEnumerate(start[h].contextUri)
    /\ isAuthenticated' = AuthAfter(o)
    /\ IF o = "ok"
       THEN LET tracks == ContextTracks(start[h].contextUri) IN
            IF tracks = <<>>
            THEN StartCallCreateFresh(h, isAuthenticated', tracks)
            ELSE start' = [start EXCEPT ![h].pc = "syncBegin", ![h].tracks = tracks]
       ELSE IF o = "notfound"
            THEN start' = [start EXCEPT ![h] = [StartIdle EXCEPT
                     !.http = "404",
                     !.res = IF IsPlaylistUri(start[h].contextUri)
                             THEN "context unavailable" ELSE "500"]]
       ELSE StartFinish(h, "500")
    /\ UNCHANGED <<dbVars, remoteVars, shuffleState, tick, dbcall, stop>>

\* syncContextTracks: BEGIN TRANSACTION and the inserts, queued together on
\* the serialized connection; `failed`: the inserts that report an error.
syncBegin(contextUri, tracks, failed) ==
    /\ ~txn.active
    /\ txn' = [active |-> TRUE, snapshot |-> store]
    /\ store' = SyncInserts(store, contextUri, tracks, failed, 1)

\* A faulty checkComplete: COMMIT whatever the inserts reported.
syncEndCommit(errors) ==
    /\ txn.active
    /\ txn' = NoTxn
    /\ store' = store

\* syncContextTracks: checkComplete after the last insert: ROLLBACK and reject
\* when errors.length > 0, else COMMIT and resolve.
syncEnd(errors) ==
    /\ txn.active
    /\ txn' = NoTxn
    /\ store' = IF errors THEN txn.snapshot ELSE store

StartSyncBegin(h) ==
    /\ start[h].pc = "syncBegin"
    /\ \E failed \in SUBSET (1..Len(start[h].tracks)) :
        /\ syncBegin(start[h].contextUri, start[h].tracks, failed)
        /\ start' = [start EXCEPT ![h].pc = "syncEnd", ![h].syncErr = (failed # {})]
    /\ UNCHANGED <<now, remoteVars, isAuthenticated, shuffleState, tick, dbcall, stop>>

StartSyncEnd(h) ==
    /\ start[h].pc = "syncEnd"
    /\ syncEnd(start[h].syncErr)
    /\ IF start[h].syncErr
       THEN StartFinish(h, "500")
       ELSE StartCallCreateFresh(h, isAuthenticated, start[h].tracks)
    /\ UNCHANGED <<now, remoteVars, isAuthenticated, shuffleState, tick, dbcall, stop>>

\* removeAllSTSDPlaylists: the playlists are listed and each is unfollowed;
\* a DELETE that fails is logged and the loop goes on (`kept`: those).
removeAllSTSDPlaylists(kept) ==
    [p \in PlaylistIds |->
        IF p \in kept THEN playlists[p] ELSE [exists |-> FALSE, tracks |-> <<>>]]

StartRemoveAll(h, o) ==
    /\ start[h].pc = "removeAll"
    /\ isAuthenticated' = AuthAfter(o)
    /\ IF o = "ok"
       THEN \E kept \in SUBSET StsdPlaylists :
               /\ playlists' = removeAllSTSDPlaylists(kept)
               /\ start' = [start EXCEPT ![h].pc = "createPlaylist"]
       ELSE /\ StartFinish(h, "500")
            /\ UNCHANGED playlists
    /\ UNCHANGED <<dbVars, playback, queue, created, upstream, adds,
                   shuffleState, tick, dbcall, stop>>

\* createPlaylist returns; startShuffle, setStsdPlaylistId; addOneLeastPlayedTrack
\* is called and queries the least-played tracks.
StartCreatePlaylist(h, o, limit) ==
    /\ start[h].pc = "createPlaylist"
    /\ o = "ok" => created < limit
    /\ isAuthenticated' = AuthAfter(o)
    /\ IF o = "ok"
       THEN LET id == PlaylistIdSeq[created + 1] IN
            /\ created' = created + 1
            /\ playlists' = [playlists EXCEPT ![id] = [exists |-> TRUE, tracks |-> <<>>]]
            /\ shuffleState' = setStsdPlaylistId(
                   startShuffle(shuffleState, start[h].contextUri, start[h].tracks), id)
            /\ start' = [start EXCEPT ![h].pc = "seedSelect", ![h].playlistId = id]
       ELSE /\ StartFinish(h, "500")
            /\ UNCHANGED <<created, playlists, shuffleState>>
    /\ UNCHANGED <<dbVars, playback, queue, upstream, adds, tick, dbcall, stop>>

\* A faulty selection: a random record of the context, least played or not.
SelectAnyTrack(tbl, contextUri) ==
    {r.track_id : r \in getRandomElement(ContextRows(tbl, contextUri))}

\* addOneLeastPlayedTrack / the loops: getLeastPlayedTracks, then
\* getRandomElement: the track uris the selection can come to.
SelectLeastPlayed(tbl, contextUri) ==
    {r.track_id : r \in getRandomElement(getLeastPlayedTracks(tbl, contextUri))}

\* addOneLeastPlayedTrack: the selection; addToPlaylist is called.
StartSeedSelect(h) ==
    /\ start[h].pc = "seedSelect"
    /\ LET candidates == SelectLeastPlayed(store, start[h].contextUri) IN
       IF candidates = {} THEN StartFinish(h, "500")
       ELSE \E selectedTrack \in candidates :
              IF ~FindTrack(start[h].tracks, selectedTrack) THEN StartFinish(h, "500")
              ELSE IF ~isAuthenticated THEN StartFinish(h, "500")
              ELSE start' = [start EXCEPT ![h].pc = "seedAdd", ![h].sel = selectedTrack]
    /\ UNCHANGED <<dbVars, remoteVars, isAuthenticated, shuffleState, tick, dbcall, stop>>

\* addOneLeastPlayedTrack: addToPlaylist returns; the 500 ms safety delay starts.
StartSeedAdd(h, o, cap) ==
    /\ start[h].pc = "seedAdd"
    /\ o = "ok" => TotalAdds < cap /\ playlists[start[h].playlistId].exists
    /\ isAuthenticated' = AuthAfter(o)
    /\ IF o = "ok"
       THEN /\ playlists' = [playlists EXCEPT
                               ![start[h].playlistId].tracks = Append(@, start[h].sel)]
            /\ adds' = AddAccepted(start[h].sel)
            /\ start' = [start EXCEPT ![h].pc = "seedInc"]
       ELSE /\ StartFinish(h, "500")
            /\ UNCHANGED <<playlists, adds>>
    /\ UNCHANGED <<dbVars, playback, queue, created, upstream, shuffleState,
                   tick, dbcall, stop>>

\* The store runs one incrementPlayCount statement: it succeeds, stamping the
\* row with CURRENT_TIMESTAMP, or the store faults and nothing changes.
DbIncrement(contextUri, trackUri, ok, max) ==
    IF ok
    THEN \E ts \in Stamps(now, max) :
            /\ now' = ts
            /\ store' = incrementPlayCount(store, contextUri, trackUri, ts)
    ELSE UNCHANGED <<store, now>>

\* addOneLeastPlayedTrack: after the delay incrementPlayCount runs; the handler
\* stores the initial track and waits 3 s before starting playback.
StartSeedIncrement(h) ==
    /\ start[h].pc = "seedInc"
    /\ \E ok \in BOOLEAN :
        /\ DbIncrement(start[h].contextUri, start[h].sel, ok, MaxTime)
        /\ IF ok
           THEN /\ shuffleState' = setInitialTrack(shuffleState, start[h].sel)
                /\ start' = [start EXCEPT ![h].pc = "startPlayback"]
           ELSE /\ StartFinish(h, "500")
                /\ UNCHANGED shuffleState
    /\ UNCHANGED <<txn, remoteVars, isAuthenticated, tick, dbcall, stop>>

\* const remainingTracks = PLAYLIST_TARGET_SIZE - 1
remainingTracks == PLAYLIST_TARGET_SIZE - 1

\* The head of the seeding loop: for (let i = 0; i < remainingTracks; i++),
\* then the 1500 ms delay; after the loop the handler answers 200.
StartLoopOf(rec, i) ==
    IF i < remainingTracks
    THEN [rec EXCEPT !.pc = "queueSelect", !.i = i, !.sel = None]
    ELSE [StartIdle EXCEPT !.res = "200"]

StartLoop(h, i) == start' = [start EXCEPT ![h] = StartLoopOf(start[h], i)]

\* A faulty handler: the queue is populated without startPlaybackWithShuffle
\* having been called.
StartPlaybackSkipped(h, o) ==
    /\ start[h].pc = "startPlayback"
    /\ StartLoop(h, 0)
    /\ UNCHANGED <<dbVars, remoteVars, isAuthenticated, shuffleState, tick,
                   dbcall, stop>>

\* startPlaybackWithShuffle of the fresh playlist returns.
StartPlayback(h, o) ==
    /\ start[h].pc = "startPlayback"
    /\ IF ~isAuthenticated
       THEN /\ StartFinish(h, "500")
            /\ UNCHANGED <<playback, isAuthenticated>>
       ELSE /\ isAuthenticated' = AuthAfter(o)
            /\ IF o = "ok"
               THEN /\ playback' = start[h].playlistId
                    /\ start' = [start EXCEPT ![h] =
                           StartLoopOf([start[h] EXCEPT !.playbackStarted = TRUE], 0)]
               ELSE /\ StartFinish(h, "500")
                    /\ UNCHANGED playback
    /\ UNCHANGED <<dbVars, queue, playlists, created, upstream, adds,
                   shuffleState, tick, dbcall, stop>>

\* Seeding loop: after the delay, the selection; addToQueue is called.
StartQueueSelect(h) ==
    /\ start[h].pc = "queueSelect"
    /\ LET candidates == SelectLeastPlayed(store, start[h].contextUri) IN
       IF candidates = {} THEN StartFinish(h, "200")
       ELSE \E selectedTrack \in candidates :
              IF ~FindTrack(start[h].tracks, selectedTrack) THEN StartLoop(h, start[h].i + 1)
              ELSE IF ~isAuthenticated THEN StartFinish(h, "200")
              ELSE start' = [start EXCEPT ![h].pc = "queueAdd", ![h].sel = selectedTrack]
    /\ UNCHANGED <<dbVars, remoteVars, isAuthenticated, shuffleState, tick, dbcall, stop>>

\* A faulty seeding loop: the failure of addToQueue is swallowed and the
\* increment runs all the same.
StartQueueAddThenIncrement(h, o, cap) ==
    /\ start[h].pc = "queueAdd"
    /\ o = "ok" => TotalAdds < cap
    /\ isAuthenticated' = AuthAfter(o)
    /\ IF o = "ok"
       THEN /\ queue' = Append(queue, start[h].sel)
            /\ adds' = AddAccepted(start[h].sel)
       ELSE UNCHANGED <<queue, adds>>
    /\ start' = [start EXCEPT ![h].pc = "queueInc"]
    /\ UNCHANGED <<dbVars, playback, playlists, created, upstream, shuffleState,
                   tick, dbcall, stop>>

\* Seeding loop: addToQueue returns; incrementPlayCount is called.
StartQueueAdd(h, o, cap) ==
    /\ start[h].pc = "queueAdd"
    /\ o = "ok" => TotalAdds < cap
    /\ isAuthenticated' = AuthAfter(o)
    /\ IF o = "ok"
       THEN /\ queue' = Append(queue, start[h].sel)
            /\ adds' = AddAccepted(start[h].sel)
            /\ start' = [start EXCEPT ![h].pc = "queueInc"]
       ELSE /\ StartFinish(h, "200")
            /\ UNCHANGED <<queue, adds>>
    /\ UNCHANGED <<dbVars, playback, playlists, created, upstream, shuffleState,
                   tick, dbcall, stop>>

\* Seeding loop: incrementPlayCount runs; the next iteration, or the answer.
StartQueueIncrement(h) ==
    /\ start[h].pc = "queueInc"
    /\ \E ok \in BOOLEAN :
        /\ DbIncrement(start[h].contextUri, start[h].sel, ok, MaxTime)
        /\ IF ok THEN StartLoop(h, start[h].i + 1) ELSE StartFinish(h, "200")
    /\ UNCHANGED <<txn, remoteVars, isAuthenticated, shuffleState, tick, dbcall, stop>>

(***************************************************************************)
(* queueMonitoringInterval: setInterval(async () => {...}, 20000)          *)
(***************************************************************************)
\* The callback returns: `r` tells how ("skipped": a check of its head;
\* "no data": getCurrentPlayback or getQueue gave null; "not playing": the
\* vehicle-playlist check; "done": the end of the top-up, by the loop's end or
\* by `break` on an empty selection).
TickReturn(t, r) == tick' = [tick EXCEPT ![t] = [TickIdle EXCEPT !.res = r]]

\* An uncaught exception would reject the promise of the async callback: the
\* callback is over and the rejection is unhandled.
TickRethrow(t) == tick' = [tick EXCEPT ![t] = [TickIdle EXCEPT !.pc = "uncaught"]]

\* An exception thrown inside the callback: the catch of the loop body
\* (then `break`) or the catch around the whole pass logs it, and the
\* callback returns.
TickCatch(t) == TickReturn(t, "failed")

\* A faulty head of the callback: the isActive and isUserAuthenticated checks
\* are missing.
TickFireUnchecked(t) ==
    /\ tick[t].pc = "idle"
    /\ tick' = [tick EXCEPT ![t] = [TickIdle EXCEPT !.pc = "getPlayback"]]
    /\ UNCHANGED <<dbVars, remoteVars, isAuthenticated, shuffleState, start, dbcall, stop>>

\* The timer fires (setInterval does not wait for an earlier callback that is
\* still awaiting); the isActive and isUserAuthenticated checks;
\* getCurrentPlayback is called.
TickFire(t) ==
    /\ tick[t].pc = "idle"
    /\ IF ~shuffleState.isActive THEN TickReturn(t, "skipped")
       ELSE IF ~isAuthenticated THEN TickReturn(t, "skipped")
       ELSE tick' = [tick EXCEPT ![t] = [TickIdle EXCEPT !.pc = "getPlayback"]]
    /\ UNCHANGED <<dbVars, remoteVars, isAuthenticated, shuffleState, start, dbcall, stop>>

\* getCurrentPlayback returns; the vehicle-playlist check; getQueue is called.
TickGotPlayback(t, o) ==
    /\ tick[t].pc = "getPlayback"
    /\ isAuthenticated' = AuthAfter(o)
    /\ IF o # "ok" \/ playback = None THEN TickReturn(t, "no data")
       ELSE IF ~UriIncludes(playback, shuffleState.stsdPlaylistId)
            THEN TickReturn(t, "not playing")
       ELSE IF ~isAuthenticated' THEN TickCatch(t)
       ELSE tick' = [tick EXCEPT ![t].pc = "getQueue"]
    /\ UNCHANGED <<dbVars, remoteVars, shuffleState, start, dbcall, stop>>

\* getQueue returns; the initial track is filtered out; getRecentlyAddedTracks
\* is called for shuffleState.currentContext.
TickGotQueue(t, o) ==
    /\ tick[t].pc = "getQueue"
    /\ isAuthenticated' = AuthAfter(o)
    /\ IF o # "ok" THEN TickReturn(t, "no data")
       ELSE tick' = [tick EXCEPT
                ![t].pc = "recent",
                ![t].fq = FilterQueue(queue, shuffleState.initialTrackUri),
                ![t].ctx = shuffleState.currentContext]
    /\ UNCHANGED <<dbVars, remoteVars, shuffleState, start, dbcall, stop>>

\* const tracksNeeded = targetQueueSize - stillInQueue.length
tracksNeeded(recentlyAdded, filteredQueue) ==
    PLAYLIST_TARGET_SIZE - Cardinality(StillInQueue(recentlyAdded, filteredQueue))

\* The head of the top-up loop: for (let i = 0; i < tracksNeeded; i++);
\* getLeastPlayedTracks is called for shuffleState.currentContext.
TickLoop(t, i, needed, rec) ==
    IF i < needed
    THEN tick' = [tick EXCEPT ![t] = [rec EXCEPT !.pc = "select", !.i = i,
                    !.needed = needed, !.sel = None,
                    !.ctx = shuffleState.currentContext]]
    ELSE TickReturn(t, "done")

\* getRecentlyAddedTracks returns; the deficit; the top-up loop starts.
TickComputeDeficit(t) ==
    /\ tick[t].pc = "recent"
    /\ \E recentlyAdded \in getRecentlyAddedTracks(store, tick[t].ctx, RecentLimit) :
          TickLoop(t, 0, tracksNeeded(recentlyAdded, tick[t].fq), tick[t])
    /\ UNCHANGED <<dbVars, remoteVars, isAuthenticated, shuffleState, start, dbcall, stop>>

\* Top-up loop: the selection; addToQueue is called.
TickSelect(t) ==
    /\ tick[t].pc = "select"
    /\ LET candidates == SelectLeastPlayed(store, tick[t].ctx) IN
       IF candidates = {} THEN TickReturn(t, "done")
       ELSE \E selectedTrack \in candidates :
              IF ~FindTrack(shuffleState.currentTracks, selectedTrack)
              THEN TickLoop(t, tick[t].i + 1, tick[t].needed, tick[t])
              ELSE IF ~isAuthenticated THEN TickCatch(t)
              ELSE tick' = [tick EXCEPT ![t].pc = "add", ![t].sel = selectedTrack,
                                        ![t].att = @ + 1]
    /\ UNCHANGED <<dbVars, remoteVars, isAuthenticated, shuffleState, start, dbcall, stop>>

\* Top-up loop: addToQueue returns; incrementPlayCount is called for
\* shuffleState.currentContext.
TickAdd(t, o, cap) ==
    /\ tick[t].pc = "add"
    /\ o = "ok" => TotalAdds < cap
    /\ isAuthenticated' = AuthAfter(o)
    /\ IF o = "ok"
       THEN /\ queue' = Append(queue, tick[t].sel)
            /\ adds' = AddAccepted(tick[t].sel)
            /\ tick' = [tick EXCEPT ![t].pc = "inc", ![t].gap = "none",
                                    ![t].ctx = shuffleState.currentContext]
       ELSE /\ TickCatch(t)
            /\ UNCHANGED <<queue, adds>>
    /\ UNCHANGED <<dbVars, playback, playlists, created, upstream, shuffleState,
                   start, dbcall, stop>>

\* A faulty end of the iteration: the delay between additions is missing.
TickIncrementNoDelay(t) ==
    /\ tick[t].pc = "inc"
    /\ \E ok \in BOOLEAN :
        /\ DbIncrement(tick[t].ctx, tick[t].sel, ok, MaxTime)
        /\ IF ~ok THEN TickCatch(t)
           ELSE TickLoop(t, tick[t].i + 1, tick[t].needed,
                         [tick[t] EXCEPT !.incs = @ + 1])
    /\ UNCHANGED <<txn, remoteVars, isAuthenticated, shuffleState, start, dbcall, stop>>

\* Top-up loop: incrementPlayCount runs; the 1 s delay before the next
\* iteration, unless this was the last one.
TickIncrement(t) ==
    /\ tick[t].pc = "inc"
    /\ \E ok \in BOOLEAN :
        /\ DbIncrement(tick[t].ctx, tick[t].sel, ok, MaxTime)
        /\ IF ~ok THEN TickCatch(t)
           ELSE IF tick[t].i < tick[t].needed - 1
                THEN tick' = [tick EXCEPT ![t].pc = "delay", ![t].incs = @ + 1]
           ELSE TickReturn(t, "done")
    /\ UNCHANGED <<txn, remoteVars, isAuthenticated, shuffleState, start, dbcall, stop>>

\* Top-up loop: the delay is over; the next iteration.
TickDelay(t) ==
    /\ tick[t].pc = "delay"
    /\ TickLoop(t, tick[t].i + 1, tick[t].needed, [tick[t] EXCEPT !.gap = "delay"])
    /\ UNCHANGED <<dbVars, remoteVars, isAuthenticated, shuffleState, start, dbcall, stop>>

(***************************************************************************)
(* Other operations of the daemon, and the user                            *)
(***************************************************************************)
\* GET /auth/callback: handleCallback succeeds
Authenticate ==
    /\ ~isAuthenticated
    /\ isAuthenticated' = TRUE
    /\ UNCHANGED <<dbVars, remoteVars, shuffleState, start, tick, dbcall, stop>>

\* POST /api/shuffle/stop: res.json({ message: 'Shuffle stopped' }), and no
\* more (the handler is a placeholder; no later version of it exists).
StopShuffle ==
    /\ stop = None
    /\ stop' = "Shuffle stopped"
    /\ UNCHANGED <<dbVars, remoteVars, isAuthenticated, shuffleState, start, tick,
                   dbcall>>

\* The answer of the stop request has been delivered.
StopAnswered ==
    /\ stop # None
    /\ stop' = None
    /\ UNCHANGED <<dbVars, remoteVars, isAuthenticated, shuffleState, start, tick,
                   dbcall>>

\* GET /api/debug/reset-counts
ResetCounts ==
    /\ store' = resetAllPlayCounts(store)
    /\ store' # store
    /\ UNCHANGED <<txn, now, remoteVars, isAuthenticated, shuffleState, start,
                   tick, dbcall, stop>>

\* The user starts playing a context in a Spotify client, or stops playback.
UserPlay(contexts) ==
    /\ \E c \in contexts \cup StsdPlaylists \cup {None} :
        /\ c # playback
        /\ playback' = c
    /\ UNCHANGED <<dbVars, queue, playlists, created, upstream, adds,
                   isAuthenticated, shuffleState, start, tick, dbcall, stop>>

\* The user starts playing one of their own contexts in Spotify.
UserPlayContext(contexts) ==
    /\ \E c \in contexts :
        /\ c # playback
        /\ playback' = c
    /\ UNCHANGED <<dbVars, queue, playlists, created, upstream, adds,
                   isAuthenticated, shuffleState, start, tick, dbcall, stop>>

\* The player moves on to the next track of the queue.
PlaybackAdvance ==
    /\ queue # <<>>
    /\ queue' = Tail(queue)
    /\ UNCHANGED <<dbVars, playback, playlists, created, upstream, adds,
                   isAuthenticated, shuffleState, start, tick, dbcall, stop>>

\* The user removes the last track of a context upstream.
UpstreamRemove(contexts) ==
    /\ \E c \in contexts :
        /\ upstream[c] # <<>>
        /\ upstream' = [upstream EXCEPT ![c] = SubSeq(@, 1, Len(@) - 1)]
    /\ UNCHANGED <<dbVars, playback, queue, playlists, created, adds,
                   isAuthenticated, shuffleState, start, tick, dbcall, stop>>

(***************************************************************************)
(* The store on its own: calls of the Database methods, in any order       *)
(***************************************************************************)
\* Track lists of a context, repeated tracks included
TrackLists == UNION {[1..n -> Tracks] : n \in 0..MaxLen}

DbReturn(op, ret, rejected, rows) ==
    [dbcall EXCEPT !.op = op, !.ret = ret, !.rejected = rejected, !.rows = rows,
                   !.list = <<>>, !.after = None, !.calls = @ + 1]

\* syncContextTracks(contextId, tracks) is called: with no track it commits
\* and resolves 0; else BEGIN TRANSACTION and the inserts run.
DbSyncBegin ==
    /\ dbcall.pc = "idle"
    /\ dbcall.calls < MaxCalls
    /\ \E c \in UserContexts, tracks \in TrackLists :
        IF tracks = <<>>
        THEN /\ dbcall' = [DbReturn("sync", 0, FALSE, {}) EXCEPT
                                !.c = c, !.tracks = tracks, !.err = FALSE,
                                !.inserted = 0]
             /\ UNCHANGED <<store, txn>>
        ELSE \E failed \in SUBSET (1..Len(tracks)) :
             /\ syncBegin(c, tracks, failed)
             /\ dbcall' = [dbcall EXCEPT !.pc = "sync", !.op = "sync", !.c = c,
                                         !.tracks = tracks, !.err = (failed # {}),
                                         !.inserted = Cardinality(store' \ store)]
    /\ UNCHANGED <<now, remoteVars, isAuthenticated, shuffleState, start, tick, stop>>

\* syncContextTracks: checkComplete after the last insert: ROLLBACK and
\* reject, or COMMIT and resolve(tracks.length).
DbSyncEnd ==
    /\ dbcall.pc = "sync"
    /\ syncEnd(dbcall.err)
    /\ dbcall' = [DbReturn("sync", IF dbcall.err THEN 0 ELSE Len(dbcall.tracks),
                           dbcall.err, {}) EXCEPT !.pc = "idle"]
    /\ UNCHANGED <<now, remoteVars, isAuthenticated, shuffleState, start, tick, stop>>

\* incrementPlayCount(contextId, trackId) is called, and runs: also between
\* the inserts of a sync and its COMMIT or ROLLBACK (the connection is shared).
DbIncrementCall ==
    /\ dbcall.calls < MaxCalls
    /\ \E c \in UserContexts, t \in Tracks, ok \in BOOLEAN :
        /\ getPlayCount(store, c, t) < MaxCount
        /\ DbIncrement(c, t, ok, StoreMaxTime)
        /\ dbcall' = DbReturn("increment", IF ok THEN 1 ELSE 0, ~ok, {})
    /\ UNCHANGED <<txn, remoteVars, isAuthenticated, shuffleState, start, tick, stop>>

\* resetAllPlayCounts() is called, and runs: resolve(this.changes).
DbResetCall ==
    /\ dbcall.calls < MaxCalls
    /\ store' = resetAllPlayCounts(store)
    /\ dbcall' = DbReturn("reset", Cardinality(store), FALSE, {})
    /\ UNCHANGED <<txn, now, remoteVars, isAuthenticated, shuffleState, start, tick, stop>>

\* getLeastPlayedTracks(contextId) is called, and runs.
DbLeastPlayedCall ==
    /\ \E c \in UserContexts :
        dbcall' = [dbcall EXCEPT !.op = "leastPlayed", !.c = c, !.ret = 0,
                       !.rejected = FALSE,
                       !.rows = getLeastPlayedTracks(store, c)]
    /\ dbcall' # dbcall
    /\ UNCHANGED <<dbVars, remoteVars, isAuthenticated, shuffleState, start, tick, stop>>

\* getContextPlayCounts(contextId) is called, and runs; `after` keeps the
\* call that came before it.
DbListCall ==
    /\ \E c \in UserContexts : \E rows \in getContextPlayCounts(store, c) :
        dbcall' = [dbcall EXCEPT !.op = "list", !.c = c, !.ret = 0,
                       !.rejected = FALSE, !.rows = {}, !.list = rows,
                       !.after = IF dbcall.op = "list" THEN dbcall.after
                                 ELSE dbcall.op]
    /\ dbcall' # dbcall
    /\ UNCHANGED <<dbVars, remoteVars, isAuthenticated, shuffleState, start, tick, stop>>

(***************************************************************************)
(* Specifications                                                          *)
(***************************************************************************)
\* The steps of the start handlers H, for the remote outcomes O and a remote
\* that creates at most `limit` playlists and accepts at most `cap` additions
StartNextUpTo(H, O, limit, cap) ==
    \/ \E h \in H : StartRequest(h)
    \/ \E h \in H, o \in O : StartGotPlayback(h, o)
    \/ \E h \in H, o \in O : StartGotTracks(h, o)
    \/ \E h \in H : StartSyncBegin(h)
    \/ \E h \in H : StartSyncEnd(h)
    \/ \E h \in H, o \in O : StartRemoveAll(h, o)
    \/ \E h \in H, o \in O : StartCreatePlaylist(h, o, limit)
    \/ \E h \in H : StartSeedSelect(h)
    \/ \E h \in H, o \in O : StartSeedAdd(h, o, cap)
    \/ \E h \in H : StartSeedIncrement(h)
    \/ \E h \in H, o \in O : StartPlayback(h, o)
    \/ \E h \in H : StartQueueSelect(h)
    \/ \E h \in H, o \in O : StartQueueAdd(h, o, cap)
    \/ \E h \in H : StartQueueIncrement(h)

StartNext(H, O, limit) == StartNextUpTo(H, O, limit, MaxAdds)

\* The steps of the timer callbacks T, for the remote outcomes O and a remote
\* that accepts at most `cap` additions
TickNextUpTo(T, O, cap) ==
    \/ \E t \in T : TickFire(t)
    \/ \E t \in T, o \in O : TickGotPlayback(t, o)
    \/ \E t \in T, o \in O : TickGotQueue(t, o)
    \/ \E t \in T : TickComputeDeficit(t)
    \/ \E t \in T : TickSelect(t)
    \/ \E t \in T, o \in O : TickAdd(t, o, cap)
    \/ \E t \in T : TickIncrement(t)
    \/ \E t \in T : TickDelay(t)

TickNext(T, O) == TickNextUpTo(T, O, MaxAdds)

\* The daemon: one start request at a time, one timer callback at a time,
\* the user and the player.
Next ==
    \/ StartNext(OneStart, BasicOutcomes, MaxPlaylists)
    \/ TickNext(OneTick, BasicOutcomes)
    \/ UserPlay(OneContext)
    \/ PlaybackAdvance

Spec == Init /\ [][Next]_vars

\* The same, with contexts that lose tracks upstream between sessions.
NextUpstream ==
    \/ StartNext(OneStart, BasicOutcomes, MaxPlaylists)
    \/ TickNext(OneTick, BasicOutcomes)
    \/ UserPlay(OneContext)
    \/ UpstreamRemove(OneContext)

SpecUpstream == Init /\ [][NextUpstream]_vars

\* The timer fires again while a callback is still awaiting.
NextOverlap ==
    \/ StartNext(OneStart, {"ok"}, MaxPlaylists)
    \/ TickNext(Ticks, BasicOutcomes)
    \/ UserPlay(OneContext)

SpecOverlap == Init /\ [][NextOverlap]_vars

\* Repeated session starts against a remote that creates a second playlist.
NextPlaylists ==
    \/ StartNext(OneStart, BasicOutcomes, MorePlaylists)
    \/ UserPlay(UserContexts)

SpecPlaylists == Init /\ [][NextPlaylists]_vars

\* The daemon with every fault of the remote, the loss and the renewal of
\* the credential, and stop requests.
NextFaults ==
    \/ StartNext(OneStart, AllOutcomes, MaxPlaylists)
    \/ TickNext(OneTick, AllOutcomes)
    \/ UserPlay(OneContext)
    \/ Authenticate
    \/ StopShuffle
    \/ StopAnswered

SpecFaults == Init /\ [][NextFaults]_vars

\* Start requests that overlap, for two contexts of the user.
NextStarts ==
    \/ StartNext(Starts, {"ok"}, MorePlaylists)
    \/ UserPlayContext(UserContexts)

SpecStarts == Init /\ [][NextStarts]_vars

\* The daemon with the debug endpoint that resets the play counts.
NextReset ==
    \/ StartNext(OneStart, {"ok"}, MaxPlaylists)
    \/ TickNext(OneTick, {"ok"})
    \/ UserPlay(OneContext)
    \/ ResetCounts

SpecReset == Init /\ [][NextReset]_vars

\* A session that is replaced by one for another context while the timer
\* callback runs.
NextSwitch ==
    \/ StartNext(OneStart, {"ok"}, MorePlaylists)
    \/ TickNext(OneTick, {"ok"})
    \/ UserPlayContext(UserContexts)

SpecSwitch == Init /\ [][NextSwitch]_vars

\* One session and the timer, against a remote that accepts enough additions
\* for the queue to pass the target depth.
NextDepth ==
    \/ StartNextUpTo(OneStart, {"ok"}, MaxPlaylists, MoreAdds)
    \/ TickNextUpTo(OneTick, {"ok"}, MoreAdds)
    \/ UserPlayContext(OneContext)

SpecDepth == Init /\ [][NextDepth]_vars

\* The store on its own.
NextStore ==
    \/ DbSyncBegin
    \/ DbSyncEnd
    \/ DbIncrementCall
    \/ DbResetCall
    \/ DbLeastPlayedCall

SpecStore == Init /\ [][NextStore]_vars

\* The store on its own, with the listing of a context.
NextList ==
    \/ DbSyncBegin
    \/ DbSyncEnd
    \/ DbIncrementCall
    \/ DbResetCall
    \/ DbListCall

SpecList == Init /\ [][NextList]_vars

(***************************************************************************)
(* Properties                                                              *)
(***************************************************************************)
\* The track has a record in the context, and no record of the context has a
\* smaller play_count.
IsLeastPlayed(tbl, c, t) ==
    /\ HasRow(tbl, c, t)
    /\ \A q \in ContextRows(tbl, c) : getPlayCount(tbl, c, t) <= q.play_count

RECURSIVE SumPlayCounts(_)
SumPlayCounts(rows) ==
    IF rows = {} THEN 0
    ELSE LET r == CHOOSE x \in rows : TRUE
         IN  r.play_count + SumPlayCounts(rows \ {r})

\* The plays the store counts for a track, over all contexts
TrackPlays(t) == SumPlayCounts({r \in store : r.track_id = t})

\* C1: in seeding (addOneLeastPlayedTrack, the seeding loop) and in every
\* tick, a track chosen for addition has, at the step that selects it, the
\* minimum play_count over all records of the context it is selected for,
\* which is the session's context; so a track just incremented is not chosen
\* again while a record of the context has a strictly smaller count.
C1_SelectionIsLeastPlayed ==
    [][ /\ \A h \in Starts :
             (start[h].pc \in {"seedSelect", "queueSelect"}
              /\ start'[h].pc \in {"seedAdd", "queueAdd"})
             => /\ IsLeastPlayed(store, start[h].contextUri, start'[h].sel)
                /\ start[h].contextUri = shuffleState.currentContext
        /\ \A t \in Ticks :
             (tick[t].pc = "select" /\ tick'[t].pc = "add")
             => IsLeastPlayed(store, tick[t].ctx, tick'[t].sel)
      ]_vars

\* C1 happens: a tick has chosen a track of count c while another record of
\* the context, incremented earlier, has a greater count.
C1_Witness ==
    \E t \in Ticks :
        /\ tick[t].pc = "add"
        /\ HasRow(store, tick[t].ctx, tick[t].sel)
        /\ \E r \in ContextRows(store, tick[t].ctx) :
               r.play_count > getPlayCount(store, tick[t].ctx, tick[t].sel)

\* The remote add a handler was awaiting has failed (the handler moves on
\* and the remote has accepted nothing): the step leaves the store as it was
\* and ends the handler's pass, so no increment follows.
FailedAddLeavesStore ==
    /\ \A h \in Starts :
          (start[h].pc \in {"seedAdd", "queueAdd"} /\ start'[h] # start[h]
           /\ adds' = adds)
          => (store' = store /\ start'[h].pc = "idle")
    /\ \A t \in Ticks :
          (tick[t].pc = "add" /\ tick'[t] # tick[t] /\ adds' = adds)
          => (store' = store /\ tick'[t].pc = "idle")

\* C2: the store never counts more plays of a track than the remote has
\* accepted additions of it (every increment follows its own successful
\* addToPlaylist or addToQueue), and a failed remote add leaves play_count
\* and last_played as they were.
C2_IncrementOnlyAfterAdd ==
    /\ [](\A t \in Tracks : TrackPlays(t) <= adds[t])
    /\ [][FailedAddLeavesStore]_vars

\* C2 happens: the seeding addToPlaylist has failed: the start handler has
\* answered 500, the vehicle playlist is empty and every count is still 0.
C2_Witness ==
    /\ \E h \in Starts : start[h].res = "500"
    /\ shuffleState.isActive
    /\ playlists[shuffleState.stsdPlaylistId].exists
    /\ playlists[shuffleState.stsdPlaylistId].tracks = <<>>
    /\ store # {}
    /\ \A r \in store : r.play_count = 0 /\ r.last_played = NULL
    /\ TotalAdds = 0

\* C3: when getCurrentPlayback resolves the context of the active session,
\* the start handler answers "already active" in that very step: no sync, no
\* playlist is created or removed, nothing is added or incremented, and the
\* session keeps its context, its tracks and its vehicle playlist.
C3_AlreadyActive ==
    [][ \A h \in Starts :
          (/\ start[h].pc = "getPlayback"
           /\ start'[h] # start[h]
           /\ shuffleState.isActive
           /\ playback # None
           /\ shuffleState.currentContext = playback
           /\ start'[h].res # "400")
          => /\ start'[h].res = "already active"
             /\ start'[h].pc = "idle"
             /\ UNCHANGED <<store, txn, playlists, created, queue, adds,
                            shuffleState>>
      ]_vars

\* C3 happens: a start request was answered "already active".
C3_Witness ==
    /\ \E h \in Starts : start[h].res = "already active"
    /\ shuffleState.isActive
    /\ shuffleState.currentContext = playback

\* C4: at most one reconciliation pass is in flight at any time.
C4_OnePassInFlight ==
    Cardinality({t \in Ticks : tick[t].pc # "idle"}) <= 1

\* C5: a tick with deficit `needed` (target depth minus the recently-touched
\* tracks found in the filtered queue) ends its top-up loop only after
\* `needed` additions were attempted and incremented, or at the first failed
\* call, and then with exactly the increments of the additions before it.
C5_ExactlyDeficitAttempts ==
    [][ \A t \in Ticks :
          (tick[t].pc # "idle" /\ tick'[t].pc = "idle") =>
             CASE tick[t].pc = "select" -> ~isAuthenticated
               [] tick[t].pc = "add"    -> tick[t].incs = tick[t].att - 1
               [] tick[t].pc = "inc"    ->
                     (store' # store) => /\ tick[t].att = tick[t].needed
                                         /\ tick[t].incs + 1 = tick[t].needed
               [] OTHER -> TRUE
      ]_vars

\* C6: a sync(C, T) that succeeds leaves exactly one record per track of T
\* for C, also when T repeats a track; the records it adds are at play_count
\* 0 with last_played NULL; every record that existed is kept as it was; and
\* its COMMIT changes nothing more.
C6_SyncPostcondition ==
    [][ /\ (dbcall.pc = "idle" /\ dbcall'.pc = "sync" /\ ~dbcall'.err)
           => /\ \A t \in SeqToSet(dbcall'.tracks) :
                    Cardinality({r \in store' : /\ r.context_id = dbcall'.c
                                                /\ r.track_id = t}) = 1
              /\ \A r \in store' \ store :
                    /\ r.context_id = dbcall'.c
                    /\ r.track_id \in SeqToSet(dbcall'.tracks)
                    /\ r.play_count = 0
                    /\ r.last_played = NULL
              /\ store \subseteq store'
        /\ (dbcall.pc = "sync" /\ dbcall'.pc = "idle" /\ ~dbcall.err)
           => /\ store' = store
              /\ ~dbcall'.rejected
      ]_vars

\* C6 happens: a sync of a list that repeats one track has succeeded; the
\* track had a record, which the sync has not replaced: its count is kept.
C6_Witness ==
    /\ dbcall.op = "sync" /\ dbcall.pc = "idle" /\ ~dbcall.rejected
    /\ Len(dbcall.tracks) = 2
    /\ dbcall.tracks[1] = dbcall.tracks[2]
    /\ dbcall.inserted = 0
    /\ getPlayCount(store, dbcall.c, dbcall.tracks[1]) = 1

C8_NoLostIncrement ==
    [][ \A r \in store :
          r.play_count > 0 =>
             \E q \in store' : /\ q.context_id = r.context_id
                               /\ q.track_id = r.track_id
                               /\ q.play_count >= r.play_count
      ]_vars

\* C9: leastPlayed(C) is non-empty whenever C has a record, and it is exactly
\* the records of C whose play_count is the minimum over the records of C.
C9_LeastPlayedIsMinimum ==
    dbcall.op = "leastPlayed" =>
        LET all == {r \in store : r.context_id = dbcall.c} IN
        /\ all # {} => dbcall.rows # {}
        /\ dbcall.rows \subseteq all
        /\ \A r \in all :
              r \in dbcall.rows <=> (\A q \in all : r.play_count <= q.play_count)

\* C9 happens: leastPlayed was called for a context whose records do not all
\* have the same count, and has returned some of them.
C9_Witness ==
    /\ dbcall.op = "leastPlayed"
    /\ dbcall.rows # {}
    /\ \E r \in store : r.context_id = dbcall.c /\ r \notin dbcall.rows

\* C10: after any sequence of session starts the user has at most one
\* [STSD] vehicle playlist.
C10_AtMostOneVehiclePlaylist ==
    Cardinality(StsdPlaylists) <= 1

\* C11: a tick that begins while no session is active, or while the daemon
\* is not authenticated, returns at once: it calls nothing (it is idle again
\* in the same step) and changes neither the store, the remote nor the
\* session.
C11_InactiveTickIsNoOp ==
    [][ \A t \in Ticks :
          (/\ tick[t].pc = "idle"
           /\ tick'[t] # tick[t]
           /\ (~shuffleState.isActive \/ ~isAuthenticated))
          => /\ tick'[t].pc = "idle"
             /\ tick'[t].res = "skipped"
             /\ UNCHANGED <<store, txn, now, playback, queue, playlists, created,
                            adds, shuffleState, isAuthenticated>>
      ]_vars

\* C11 happens: a tick was skipped, and the session is active but the daemon
\* is not authenticated.
C11_Witness ==
    \E t \in Ticks :
        /\ tick[t].pc = "idle" /\ tick[t].res = "skipped"
        /\ shuffleState.isActive
        /\ ~isAuthenticated

\* C12: a tick that gets the current playback while it is not the session's
\* vehicle playlist returns in that step: it adds nothing to the queue or to
\* the vehicle playlist and increments no play count.
C12_NotPlayingVehicleIsNoOp ==
    [][ \A t \in Ticks :
          (/\ tick[t].pc = "getPlayback"
           /\ tick'[t] # tick[t]
           /\ ~(playback # None /\ playback = shuffleState.stsdPlaylistId))
          => /\ tick'[t].pc = "idle"
             /\ tick'[t].res \in {"not playing", "no data"}
             /\ UNCHANGED <<store, queue, playlists, adds>>
      ]_vars

\* C12 happens: a tick of an active session has found the user playing
\* another context than the vehicle playlist.
C12_Witness ==
    \E t \in Ticks :
        /\ tick[t].pc = "idle" /\ tick[t].res = "not playing"
        /\ shuffleState.isActive
        /\ playback \in UserContexts

\* C13: when a tick observes playback outside the vehicle playlist, the
\* session is no longer active after it.
C13_TakeoverDeactivates ==
    [][ \A t \in Ticks :
          (tick'[t] # tick[t] /\ tick'[t].res = "not playing")
          => ~shuffleState'.isActive
      ]_vars

\* C14: when stop-shuffle has answered, the session's active flag is false.
C14_StopDeactivates ==
    [][ (stop = None /\ stop' # None) => ~shuffleState'.isActive ]_vars

\* C15: a start request that fails after it created its vehicle playlist
\* (its context was resolved and was not the managed one) does not leave the
\* session active for that context.
C15_FailedStartNotActive ==
    [][ \A h \in Starts :
          (/\ start[h].pc # "idle"
           /\ start[h].playlistId # None
           /\ start'[h].res = "500")
          => ~(/\ shuffleState'.isActive
               /\ shuffleState'.currentContext = start[h].contextUri)
      ]_vars

\* C16: no exception escapes a tick: the callback is never left with an
\* unhandled rejection; a failed addToQueue (nothing accepted) and a store
\* fault at the increment (store unchanged) end the callback normally, and
\* the timer can fire it again.
C16_TickContainsExceptions ==
    /\ [](\A t \in Ticks : tick[t].pc # "uncaught")
    /\ [][ \A t \in Ticks :
             (/\ tick'[t] # tick[t]
              /\ \/ (tick[t].pc = "add" /\ adds' = adds)
                 \/ (tick[t].pc = "inc" /\ store' = store))
             => /\ tick'[t].pc = "idle"
                /\ tick'[t].res = "failed"
         ]_vars

\* C16 happens: a tick has ended in its catch, after an increment of the
\* same session had been made.
C16_Witness ==
    \E t \in Ticks :
        /\ tick[t].pc = "idle" /\ tick[t].res = "failed"
        /\ \E r \in store : r.play_count > 0

\* C17: a remote failure that makes a tick abandon its additions does not
\* disable the loop: the daemon is still authenticated after it, so the next
\* tick is not skipped.
C17_FailureKeepsLoopAlive ==
    [][ \A t \in Ticks :
          (/\ tick[t].pc = "add"
           /\ tick'[t] # tick[t]
           /\ adds' = adds
           /\ isAuthenticated)
          => isAuthenticated'
      ]_vars

\* C18: when the enumeration of a playlist-type context answers 404, the
\* start handler answers the distinct context-unavailable outcome, and
\* nothing is synced, no playlist is created or removed and the session is
\* as before.
C18_NotFoundIsContextUnavailable ==
    [][ \A h \in Starts :
          (/\ start[h].pc = "getTracks"
           /\ start'[h].http = "404"
           /\ start[h].contextUri \in UserContexts \cup PlaylistIds)
          => /\ start'[h].res = "context unavailable"
             /\ start'[h].pc = "idle"
             /\ UNCHANGED <<store, txn, playlists, created, queue, adds,
                            shuffleState>>
      ]_vars

\* C18 happens: a start request for a playlist has been answered "context
\* unavailable" while a session was active for another context.
C18_Witness ==
    \E h \in Starts :
        /\ start[h].res = "context unavailable"
        /\ start[h].http = "404"
        /\ shuffleState.isActive
        /\ shuffleState.currentContext # playback

\* C19: a start request during which the credential proves invalid (the
\* daemon is no longer authenticated after the step that ends it) is
\* answered with the not-authenticated outcome.
C19_InvalidCredentialIs401 ==
    [][ \A h \in Starts :
          (/\ start[h].pc # "idle"
           /\ start'[h].pc = "idle"
           /\ ~isAuthenticated')
          => start'[h].res = "401"
      ]_vars

\* C20: when a start request answers 200 (and no other request for the same
\* context is in flight), the session is wholly the one of that request: its
\* context, its track list, its vehicle playlist, an initial track out of
\* its track list and no last-managed track.
C20_SessionReplacedWholesale ==
    [][ \A h \in Starts :
          (/\ start[h].pc # "idle"
           /\ start'[h].res = "200"
           /\ \A g \in Starts \ {h} : start[g].contextUri # start[h].contextUri)
          => /\ shuffleState'.isActive
             /\ shuffleState'.currentContext = start[h].contextUri
             /\ shuffleState'.currentTracks = start[h].tracks
             /\ shuffleState'.stsdPlaylistId = start[h].playlistId
             /\ \E i \in 1..Len(start[h].tracks) :
                    shuffleState'.initialTrackUri = start[h].tracks[i]
             /\ shuffleState'.lastManagedTrack = None
      ]_vars

\* The (context_id, track_id) pairs that have a record
Keys(tbl) == {<<r.context_id, r.track_id>> : r \in tbl}

\* C21: resetAllPlayCounts leaves a record for every pair that had one and for
\* no other, every record at play_count 0 with last_played NULL, and resolves
\* the number of records; a listing of a context made right after it has one
\* entry per record of the context, each at play_count 0 with last_played
\* NULL.
C21_ResetThenList ==
    /\ [][ (dbcall'.op = "reset" /\ dbcall'.calls = dbcall.calls + 1)
           => /\ Keys(store') = Keys(store)
              /\ Cardinality(store') = Cardinality(store)
              /\ \A r \in store' : r.play_count = 0 /\ r.last_played = NULL
              /\ dbcall'.ret = Cardinality(store)
         ]_vars
    /\ [](dbcall.op = "list" /\ dbcall.after = "reset"
          => /\ Len(dbcall.list) = Cardinality(ContextRows(store, dbcall.c))
             /\ \A i \in DOMAIN dbcall.list :
                    /\ dbcall.list[i].play_count = 0
                    /\ dbcall.list[i].last_played = NULL)

\* C21 happens: a context of two records was listed right after a reset, the
\* third call of the run (records were made and counted before it).
C21_Witness ==
    /\ dbcall.op = "list" /\ dbcall.after = "reset"
    /\ Len(dbcall.list) = 2
    /\ dbcall.calls = MaxCalls

\* C23: the store never holds two records of one (context_id, track_id) pair.
C23_OneRecordPerPair ==
    \A r, q \in store :
        (r.context_id = q.context_id /\ r.track_id = q.track_id) => r = q

\* C23 happens: a record was synced and incremented twice, beside another
\* record of the same context.
C23_Witness ==
    /\ dbcall.op = "increment" /\ ~dbcall.rejected
    /\ \E r, q \in store :
        /\ r.context_id = q.context_id /\ r.track_id # q.track_id
        /\ r.play_count = 2

\* C25: a sync that resolved returned the number of records it inserted.
C25_SyncReturnsInserted ==
    (dbcall.op = "sync" /\ dbcall.pc = "idle" /\ ~dbcall.rejected)
    => dbcall.ret = dbcall.inserted

\* C26: an increment that resolved returned the new play_count of the
\* record it changed.
C26_IncrementReturnsCount ==
    [][ (/\ dbcall'.op = "increment"
         /\ dbcall'.calls = dbcall.calls + 1
         /\ ~dbcall'.rejected)
        => \E r \in store' \ store : dbcall'.ret = r.play_count
      ]_vars

\* C27: a listing of a context has exactly the records of the context, each
\* once, ordered by play_count ascending, then last_played ascending with
\* NULL first.
C27_ListSorted ==
    (dbcall.op = "list")
    => /\ Len(dbcall.list) = Cardinality(ContextRows(store, dbcall.c))
       /\ \A r \in ContextRows(store, dbcall.c) :
            \E i \in DOMAIN dbcall.list :
                /\ dbcall.list[i].track_id = r.track_id
                /\ dbcall.list[i].play_count = r.play_count
                /\ dbcall.list[i].last_played = r.last_played
       /\ \A i, j \in DOMAIN dbcall.list :
            i < j =>
              \/ dbcall.list[i].play_count < dbcall.list[j].play_count
              \/ /\ dbcall.list[i].play_count = dbcall.list[j].play_count
                 /\ \/ dbcall.list[i].last_played = NULL
                    \/ /\ dbcall.list[j].last_played # NULL
                       /\ dbcall.list[i].last_played <= dbcall.list[j].last_played

\* C27 happens: a listing of two records, the first never played, the
\* second played.
C27_Witness ==
    /\ dbcall.op = "list"
    /\ Len(dbcall.list) = 2
    /\ dbcall.list[1].last_played = NULL
    /\ dbcall.list[2].last_played # NULL

\* C22: while the session manages a context, from one state to the next
\* every record of that context keeps a play_count that is at least what it
\* was, and not negative.
C22_PlayCountNeverDecreases ==
    [][ (/\ shuffleState.isActive /\ shuffleState'.isActive
         /\ shuffleState'.currentContext = shuffleState.currentContext)
        => \A r \in ContextRows(store, shuffleState.currentContext) :
             \E q \in store' :
                /\ q.context_id = r.context_id /\ q.track_id = r.track_id
                /\ q.play_count >= r.play_count
                /\ r.play_count >= 0
      ]_vars

\* C24: a record that was in the store before the open transaction began (or
\* while none is open) is in the store after every step, and is unchanged, or
\* an increment made it (play_count + 1, last_played set), or a reset made it
\* (0, NULL); a record that appears is at (0, NULL) or, by an increment, at
\* (1, last_played set); and in every state a record has last_played NULL
\* exactly when its play_count is 0.
C24_RecordLifecycle ==
    /\ [][ /\ \A r \in store :
                (~txn.active \/ <<r.context_id, r.track_id>> \in Keys(txn.snapshot))
                => \E q \in store' :
                     /\ q.context_id = r.context_id /\ q.track_id = r.track_id
                     /\ \/ q = r
                        \/ /\ dbcall'.op = "increment"
                           /\ q.play_count = r.play_count + 1
                           /\ q.last_played # NULL
                        \/ /\ dbcall'.op = "reset"
                           /\ q.play_count = 0
                           /\ q.last_played = NULL
           /\ \A q \in store' :
                <<q.context_id, q.track_id>> \notin Keys(store)
                => \/ q.play_count = 0 /\ q.last_played = NULL
                   \/ /\ dbcall'.op = "increment"
                      /\ q.play_count = 1 /\ q.last_played # NULL
         ]_vars
    /\ [](\A r \in store : (r.last_played = NULL) <=> (r.play_count = 0))

\* C28: a start handler creates its vehicle playlist only when every track of
\* the context has a committed record; adds the seed track to that playlist
\* while it is empty; starts playback of the playlist when it holds the one
\* seed track and the handler has queued nothing; and queues a track only
\* after its startPlaybackWithShuffle call has succeeded.
C28_StartOrder ==
    [][ \A h \in Starts :
          /\ (start[h].pc = "createPlaylist" /\ created' # created)
             => /\ ~txn.active
                /\ \A i \in DOMAIN start[h].tracks :
                     \E r \in store : /\ r.context_id = start[h].contextUri
                                      /\ r.track_id = start[h].tracks[i]
          /\ (start[h].pc = "seedAdd" /\ playlists' # playlists)
             => /\ playlists[start[h].playlistId].exists
                /\ playlists[start[h].playlistId].tracks = <<>>
                /\ ~start[h].playbackStarted
          /\ (start[h].pc = "startPlayback" /\ start'[h].playbackStarted)
             => /\ Len(playlists[start[h].playlistId].tracks) = 1
                /\ playback' = start[h].playlistId
                /\ start[h].i = 0
          /\ (start[h].pc = "queueAdd" /\ queue' # queue)
             => start[h].playbackStarted
      ]_vars

\* C28 happens: a start handler has queued a track, after it started
\* playback of its seeded vehicle playlist.
C28_Witness ==
    \E h \in Starts :
        /\ start[h].pc = "queueInc"
        /\ start[h].playbackStarted
        /\ queue # <<>>
        /\ Len(playlists[start[h].playlistId].tracks) = 1

C30_FilteredQueue ==
    [][ \A t \in Ticks :
          (tick[t].pc = "getQueue" /\ tick'[t].pc = "recent")
          => LET Kept(uri) == uri # shuffleState.initialTrackUri IN
             /\ tick'[t].fq = SelectSeq(queue, Kept)
             /\ \A i \in DOMAIN tick'[t].fq :
                    tick'[t].fq[i] # shuffleState.initialTrackUri
             /\ shuffleState.initialTrackUri = None => tick'[t].fq = queue
      ]_vars

\* C30 happens: a tick has filtered the initial track out of a queue that
\* holds another track too.
C30_Witness ==
    \E t \in Ticks :
        /\ tick[t].pc = "recent"
        /\ tick[t].fq # <<>>
        /\ Len(tick[t].fq) < Len(queue)
        /\ \E i \in DOMAIN queue : queue[i] = shuffleState.initialTrackUri

\* C31: a sync(C, T), from its BEGIN to its COMMIT or ROLLBACK, leaves every
\* record of another context as it is and makes none; an increment changes
\* or makes the record of one (context, track) pair and no other record.
C31_PerContextFrame ==
    [][ /\ (dbcall.pc = "idle" /\ dbcall'.pc = "sync")
           => \A r \in store \cup store' :
                 r.context_id # dbcall'.c => (r \in store /\ r \in store')
        /\ (dbcall.pc = "sync" /\ dbcall'.pc = "idle")
           => \A r \in store \cup store' :
                 r.context_id # dbcall.c => (r \in store /\ r \in store')
        /\ (dbcall'.op = "increment" /\ dbcall'.calls = dbcall.calls + 1)
           => \A r \in store \ store', q \in store' \ store :
                 r.context_id = q.context_id /\ r.track_id = q.track_id
      ]_vars

\* C35: when the transaction of a sync ends, by COMMIT or by ROLLBACK, every
\* record that an increment has brought to a play_count above the one it had
\* when the transaction began still has at least that play_count.
C35_IncrementSurvivesRollback ==
    [][ (txn.active /\ ~txn'.active)
        => \A r \in store :
             r.play_count > getPlayCount(txn.snapshot, r.context_id, r.track_id)
             => getPlayCount(store', r.context_id, r.track_id) >= r.play_count
      ]_vars

\* C32: the play counts of a user context's records, which all start at 0
\* and all belong to the track list of its session, never differ by more
\* than 1.
C32_CountsBalanced ==
    \A c \in UserContexts :
        \A r, q \in ContextRows(store, c) : r.play_count - q.play_count <= 1

\* C33: the increment that follows a tick's addToQueue is made for the
\* context the track was selected from (stated for the user's contexts, the
\* session having passed from one to the other); and every record of a user
\* context is of a track of that context.
C33_IncrementInSelectionContext ==
    /\ [][ \A t \in Ticks :
             (/\ tick[t].pc = "add" /\ tick'[t].pc = "inc"
              /\ tick[t].ctx \in UserContexts
              /\ tick'[t].ctx \in UserContexts)
             => tick'[t].ctx = tick[t].ctx
         ]_vars
    /\ [](\A r \in store :
             r.context_id \in UserContexts
             => r.track_id \in SeqToSet(upstream[r.context_id]))


\* C34: when a timer callback completes, the remote queue holds no more of
\* the daemon's additions than the target depth.
C34_QueueWithinTarget ==
    [][ \A t \in Ticks :
          (tick[t].pc # "idle" /\ tick'[t].pc = "idle")
          => Len(queue') <= PLAYLIST_TARGET_SIZE ]_vars

\* The least-played records of the session's context are all of tracks that
\* are absent from the session's track list.
OnlyStaleLeastPlayed ==
    /\ ContextRows(store, shuffleState.currentContext) # {}
    /\ \A r \in ContextRows(store, shuffleState.currentContext) :
          FindTrack(shuffleState.currentTracks, r.track_id)
          => \E q \in ContextRows(store, shuffleState.currentContext) :
                /\ ~FindTrack(shuffleState.currentTracks, q.track_id)
                /\ q.play_count < r.play_count

\* C36: where the least-played records of the managed context are of tracks
\* that left the context, a timer callback with a positive deficit, a session
\* with a non-empty track list and a remote that answers still attempts an
\* addition before it completes.
C36_StaleRecordsDoNotBlock ==
    [][ \A t \in Ticks :
          (/\ tick[t].pc = "select" /\ tick'[t].pc = "idle"
           /\ tick'[t].res = "done" /\ tick[t].needed > 0
           /\ shuffleState.isActive /\ shuffleState.currentTracks # <<>>
           /\ OnlyStaleLeastPlayed)
          => tick[t].att > 0 ]_vars

\* C37: of two start requests in flight for the same context, at most one
\* has created a vehicle playlist and begun a session.
C37_OverlappingStartsOnePlaylist ==
    \A h, g \in Starts :
        (/\ h # g
         /\ start[h].contextUri \in UserContexts
         /\ start[g].contextUri = start[h].contextUri)
        => ~(start[h].playlistId # None /\ start[g].playlistId # None)

\* C38: a start request that finds playback on the vehicle playlist of the
\* active session does not take that playlist for a context: it goes no
\* further than the playback answer, and no context of the store or of the
\* session is ever a vehicle playlist.
C38_VehicleNeverAdopted ==
    /\ [][ \A h \in Starts :
             (/\ start[h].pc = "getPlayback" /\ start'[h] # start[h]
              /\ shuffleState.isActive
              /\ playback = shuffleState.stsdPlaylistId)
             => start'[h].pc = "idle" ]_vars
    /\ [](\A r \in store : r.context_id \notin PlaylistIds)
    /\ [](shuffleState.currentContext \notin PlaylistIds)

\* The tracks of the filtered queue `fq` whose record for context `c` shows
\* an addition: play_count at least 1 and last_played set.
AddedInQueue(c, fq) ==
    {u \in SeqToSet(fq) :
        \E r \in ContextRows(store, c) :
            r.track_id = u /\ r.play_count >= 1 /\ r.last_played # NULL}

\* C39: when no start request is in flight, the tracks a timer callback
\* counts as still queued are tracks whose records show an addition: the
\* deficit it computes is no smaller than the target less those tracks.
C39_CountsOnlyAddedTracks ==
    [][ \A t \in Ticks :
          (/\ tick[t].pc = "recent" /\ tick'[t].pc = "select"
           /\ \A h \in Starts : start[h].pc = "idle")
          => PLAYLIST_TARGET_SIZE - tick'[t].needed
                <= Cardinality(AddedInQueue(tick[t].ctx, tick[t].fq)) ]_vars

====
